---- MODULE Spec2Model ----
(***************************************************************************)
(* Model of pkg/util/pki/generate.go: private key generation, private key  *)
(* encoding and public key comparison.                                     *)
(*                                                                         *)
(* Keys are records.  The random material of a key is the value drawn from *)
(* the process-wide random source (rand.Reader), modelled as a counter     *)
(* that every successful draw advances, so two generated keys never share  *)
(* their material.  An RSA modulus is the pair (bit length, material).     *)
(***************************************************************************)
EXTENDS Integers, Sequences, FiniteSets, TLC

VARIABLES crt, rand, held, ret, prev

vars == <<crt, rand, held, ret, prev>>

(* ------------------------------ bounds -------------------------------- *)

\* Number of successful draws from rand.Reader in one behaviour.
MaxRand == 2

(* --------------------------- program constants ------------------------ *)

MinRSAKeySize == 2048
MaxRSAKeySize == 8192
ECCurve256 == 256
ECCurve384 == 384
ECCurve521 == 521

(* ------------------------------ inputs -------------------------------- *)

\* Key sizes the callers pass: around every boundary of the validation.
Sizes == {-1, 0, 1, 256, 384, 521, 2047, 2048, 4096, 8192, 8193}

\* v1.PrivateKeyAlgorithm values; "DSA" stands for any unsupported value.
Algorithms == {"", "RSA", "ECDSA", "Ed25519", "DSA"}

\* v1.PrivateKeyEncoding values; "JWK" stands for any unsupported value.
Encodings == {"", "PKCS1", "PKCS8", "JWK"}

Nil == [type |-> "nil"]

\* crt.Spec.PrivateKey: nil or a section with Algorithm and Size.
PrivateKeySections ==
    {[type |-> "section", Algorithm |-> a, Size |-> s] : a \in Algorithms, s \in Sizes}

Certificates == {[PrivateKey |-> p] : p \in PrivateKeySections \cup {Nil}}

\* The outcome of reading rand.Reader: it fails, or it yields fresh material.
RandFail == 0

Draws == {RandFail, rand + 1}

(* ------------------------------ results ------------------------------- *)

Err(kind, name) == [type |-> "error", kind |-> kind, name |-> name]

\* An error whose message names the offending size.
SizeErr(kind, size) == [type |-> "error", kind |-> kind, size |-> size]

IsErr(r) == r.type = "error"

IsKey(r) == r.type \in {"rsa", "ecdsa", "ed25519"}

(* --------------------------- key generation --------------------------- *)

\* rsa.GenerateKey(rand.Reader, bits): a key whose modulus has exactly
\* `bits` bits, or the error of the random source.
RsaGenerateKey(bits, rnd) ==
    IF rnd = RandFail
    THEN Err("RandomSourceFailure", "rsa")
    ELSE [type |-> "rsa", N |-> [bits |-> bits, mat |-> rnd], E |-> 65537, D |-> rnd]

\* ecdsa.GenerateKey(curve, rand.Reader)
EcdsaGenerateKey(curve, rnd) ==
    IF rnd = RandFail
    THEN Err("RandomSourceFailure", "ecdsa")
    ELSE [type |-> "ecdsa", Curve |-> curve, D |-> rnd]

\* The public value of an Ed25519 seed.
Ed25519Public(seed) == [A |-> seed]

\* ed25519.GenerateKey(rand.Reader): the private key is seed || public.
Ed25519GenerateKey(rnd) ==
    IF rnd = RandFail
    THEN Err("RandomSourceFailure", "ed25519")
    ELSE [type |-> "ed25519", seed |-> rnd, pub |-> Ed25519Public(rnd)]

\* Variant: the minimum itself is rejected.
GenerateRSAPrivateKeyOffByOne(keySize, rnd) ==
    IF keySize <= MinRSAKeySize THEN SizeErr("WeakKey", keySize)
    ELSE IF keySize > MaxRSAKeySize THEN SizeErr("ExcessiveKeySize", keySize)
    ELSE RsaGenerateKey(keySize, rnd)

GenerateRSAPrivateKey(keySize, rnd) ==
    IF keySize < MinRSAKeySize THEN SizeErr("WeakKey", keySize)
    ELSE IF keySize > MaxRSAKeySize THEN SizeErr("ExcessiveKeySize", keySize)
    ELSE RsaGenerateKey(keySize, rnd)

\* Variant: the 384 case picks the curve of the 256 case.
GenerateECPrivateKeyWrongCurve(keySize, rnd) ==
    CASE keySize = ECCurve256 -> EcdsaGenerateKey("P-256", rnd)
      [] keySize = ECCurve384 -> EcdsaGenerateKey("P-256", rnd)
      [] keySize = ECCurve521 -> EcdsaGenerateKey("P-521", rnd)
      [] OTHER -> SizeErr("UnsupportedCurveSize", keySize)

GenerateECPrivateKey(keySize, rnd) ==
    CASE keySize = ECCurve256 -> EcdsaGenerateKey("P-256", rnd)
      [] keySize = ECCurve384 -> EcdsaGenerateKey("P-384", rnd)
      [] keySize = ECCurve521 -> EcdsaGenerateKey("P-521", rnd)
      [] OTHER -> SizeErr("UnsupportedCurveSize", keySize)

GenerateEd25519PrivateKey(rnd) == Ed25519GenerateKey(rnd)

(* -------------------- GeneratePrivateKeyForCertificate ---------------- *)

\* The caller's Certificate lives at CallerPtr; DeepCopy allocates CopyPtr.
CallerPtr == 1
CopyPtr == 2

\* Variant: no copy is made, the function works on the caller's object.
DeepCopyAlias(heap, p) == [heap |-> heap, ptr |-> p]

\* crt.DeepCopy(): a new object with the same content, and a pointer to it.
DeepCopy(heap, p) ==
    [heap |-> [a \in DOMAIN heap \cup {CopyPtr} |-> IF a = CopyPtr THEN heap[p] ELSE heap[a]],
     ptr |-> CopyPtr]

\* Lines 56-58: install an empty section when the section is nil.
InstallDefault(heap, p) ==
    IF heap[p].PrivateKey = Nil
    THEN [heap EXCEPT ![p].PrivateKey = [type |-> "section", Algorithm |-> "", Size |-> 0]]
    ELSE heap

\* Variant: a size of zero replaces the default too.
DispatchNonNegative(pk, rnd) ==
    CASE pk.Algorithm \in {"", "RSA"} ->
           GenerateRSAPrivateKey(IF pk.Size >= 0 THEN pk.Size ELSE MinRSAKeySize, rnd)
      [] pk.Algorithm = "ECDSA" ->
           GenerateECPrivateKey(IF pk.Size >= 0 THEN pk.Size ELSE ECCurve256, rnd)
      [] pk.Algorithm = "Ed25519" -> GenerateEd25519PrivateKey(rnd)
      [] OTHER -> Err("UnsupportedAlgorithm", pk.Algorithm)

\* Variant: every size other than zero replaces the default.
DispatchNonZero(pk, rnd) ==
    CASE pk.Algorithm \in {"", "RSA"} ->
           GenerateRSAPrivateKey(IF pk.Size # 0 THEN pk.Size ELSE MinRSAKeySize, rnd)
      [] pk.Algorithm = "ECDSA" ->
           GenerateECPrivateKey(IF pk.Size # 0 THEN pk.Size ELSE ECCurve256, rnd)
      [] pk.Algorithm = "Ed25519" -> GenerateEd25519PrivateKey(rnd)
      [] OTHER -> Err("UnsupportedAlgorithm", pk.Algorithm)

\* Lines 59-80: the switch on the algorithm of the section.
Dispatch(pk, rnd) ==
    CASE pk.Algorithm \in {"", "RSA"} ->
           GenerateRSAPrivateKey(IF pk.Size > 0 THEN pk.Size ELSE MinRSAKeySize, rnd)
      [] pk.Algorithm = "ECDSA" ->
           GenerateECPrivateKey(IF pk.Size > 0 THEN pk.Size ELSE ECCurve256, rnd)
      [] pk.Algorithm = "Ed25519" -> GenerateEd25519PrivateKey(rnd)
      [] OTHER -> Err("UnsupportedAlgorithm", pk.Algorithm)

\* The whole function on a heap: the result and the heap it leaves.
GeneratePrivateKeyForCertificate(heap, p, rnd) ==
    LET c == DeepCopy(heap, p)
        h == InstallDefault(c.heap, c.ptr)
    IN  [result |-> Dispatch(h[c.ptr].PrivateKey, rnd), heap |-> h]

(* ----------------------------- public keys ---------------------------- *)

\* The point d*G of a curve, for the private scalar d.
ScalarBaseMult(curve, d) == [X |-> 2 * d, Y |-> 2 * d + 1]

\* (*rsa.PrivateKey).Public()
RsaPublic(k) == [type |-> "rsa.pub", N |-> k.N, E |-> k.E]

\* (*ecdsa.PrivateKey).Public()
EcdsaPublic(k) == [type |-> "ecdsa.pub", Curve |-> k.Curve, Q |-> ScalarBaseMult(k.Curve, k.D)]

\* (ed25519.PrivateKey).Public(): the second half of the private key.
Ed25519PublicOf(k) == [type |-> "ed25519.pub", A |-> k.pub.A]

PublicKeyForPrivateKey(pk) ==
    CASE pk.type = "rsa" -> RsaPublic(pk)
      [] pk.type = "ecdsa" -> EcdsaPublic(pk)
      [] pk.type = "ed25519" -> Ed25519PublicOf(pk)
      [] OTHER -> Err("UnknownKeyType", pk.type)

(* ------------------------------ encoding ------------------------------ *)

\* ASN.1 elements of the binary structures.
AsnInt(v) == [tag |-> "INTEGER", int |-> v]
Mod(n) == [tag |-> "MODULUS", n |-> n]
Oid(o) == [tag |-> "OID", oid |-> o]
Octets(s) == [tag |-> "OCTETS", seq |-> s]
BitStr(q) == [tag |-> "BITS", q |-> q]

\* The object identifier of a named curve; only these three have one.
CurveOid(curve) ==
    CASE curve = "P-256" -> "secp256r1"
      [] curve = "P-384" -> "secp384r1"
      [] curve = "P-521" -> "secp521r1"
      [] OTHER -> "none"

\* x509.MarshalPKCS1PrivateKey: version, modulus, public and private exponent.
MarshalPKCS1PrivateKey(k) == <<AsnInt(0), Mod(k.N), AsnInt(k.E), AsnInt(k.D)>>

\* x509.MarshalECPrivateKey: version, scalar, the curve's identifier, point.
MarshalECPrivateKey(k) ==
    IF CurveOid(k.Curve) = "none"
    THEN Err("UnknownCurve", k.Curve)
    ELSE [type |-> "der",
          bytes |-> <<AsnInt(1), AsnInt(k.D), Oid(CurveOid(k.Curve)),
                      BitStr(ScalarBaseMult(k.Curve, k.D))>>]

\* x509.MarshalPKCS8PrivateKey: version, algorithm identifier, inner key.
MarshalPKCS8PrivateKey(k) ==
    CASE k.type = "rsa" ->
           [type |-> "der",
            bytes |-> <<AsnInt(0), Octets(<<Oid("rsaEncryption")>>),
                        Octets(MarshalPKCS1PrivateKey(k))>>]
      [] k.type = "ecdsa" ->
           IF CurveOid(k.Curve) = "none"
           THEN Err("UnknownCurve", k.Curve)
           ELSE [type |-> "der",
                 bytes |-> <<AsnInt(0), Octets(<<Oid("ecPublicKey"), Oid(CurveOid(k.Curve))>>),
                             Octets(<<AsnInt(1), AsnInt(k.D),
                                      BitStr(ScalarBaseMult(k.Curve, k.D))>>)>>]
      [] k.type = "ed25519" ->
           [type |-> "der",
            bytes |-> <<AsnInt(0), Octets(<<Oid("Ed25519")>>), Octets(<<AsnInt(k.seed)>>)>>]
      [] OTHER -> Err("UnknownKeyType", k.type)

\* The base64 body of the armour.
Base64(bytes) == [i \in 1..Len(bytes) |-> [b64 |-> bytes[i]]]

\* pem.EncodeToMemory: header line, body, footer line.
PemEncodeToMemory(block) ==
    [type |-> "bytes",
     data |-> <<[pem |-> "BEGIN", label |-> block.Type]>> \o Base64(block.Bytes)
              \o <<[pem |-> "END", label |-> block.Type]>>]

\* Variant: the block is prefixed with a salt read from the random source.
EncodePKCS1PrivateKeySalted(pk) ==
    PemEncodeToMemory([Type |-> "RSA PRIVATE KEY",
                       Bytes |-> <<Octets(<<AsnInt(rand)>>)>> \o MarshalPKCS1PrivateKey(pk)])

EncodePKCS1PrivateKey(pk) ==
    PemEncodeToMemory([Type |-> "RSA PRIVATE KEY", Bytes |-> MarshalPKCS1PrivateKey(pk)])

EncodePKCS8PrivateKey(pk) ==
    LET keyBytes == MarshalPKCS8PrivateKey(pk)
    IN  IF IsErr(keyBytes) THEN keyBytes
        ELSE PemEncodeToMemory([Type |-> "PRIVATE KEY", Bytes |-> keyBytes.bytes])

\* Variant: the EC structure is put under the label of the generic container.
EncodeECPrivateKeyWrongLabel(pk) ==
    LET asnBytes == MarshalECPrivateKey(pk)
    IN  IF IsErr(asnBytes) THEN Err("EncodingError", asnBytes.kind)
        ELSE PemEncodeToMemory([Type |-> "PRIVATE KEY", Bytes |-> asnBytes.bytes])

EncodeECPrivateKey(pk) ==
    LET asnBytes == MarshalECPrivateKey(pk)
    IN  IF IsErr(asnBytes) THEN Err("EncodingError", asnBytes.kind)
        ELSE PemEncodeToMemory([Type |-> "EC PRIVATE KEY", Bytes |-> asnBytes.bytes])

\* Variant: the legacy format has no case for Ed25519 keys.
EncodePrivateKeyNoEd25519(pk, keyEncoding) ==
    CASE keyEncoding \in {"", "PKCS1"} ->
           (CASE pk.type = "rsa" -> EncodePKCS1PrivateKey(pk)
              [] pk.type = "ecdsa" -> EncodeECPrivateKey(pk)
              [] OTHER -> Err("UnknownKeyType", pk.type))
      [] keyEncoding = "PKCS8" -> EncodePKCS8PrivateKey(pk)
      [] OTHER -> Err("UnknownEncoding", keyEncoding)

EncodePrivateKey(pk, keyEncoding) ==
    CASE keyEncoding \in {"", "PKCS1"} ->
           (CASE pk.type = "rsa" -> EncodePKCS1PrivateKey(pk)
              [] pk.type = "ecdsa" -> EncodeECPrivateKey(pk)
              [] pk.type = "ed25519" -> EncodePKCS8PrivateKey(pk)
              [] OTHER -> Err("UnknownKeyType", pk.type))
      [] keyEncoding = "PKCS8" -> EncodePKCS8PrivateKey(pk)
      [] OTHER -> Err("UnknownEncoding", keyEncoding)

(* ----------------------------- comparison ----------------------------- *)

\* (*rsa.PublicKey).Equal: same type, same modulus, same exponent.
RsaEqual(pub, x) == x.type = "rsa.pub" /\ x.N = pub.N /\ x.E = pub.E

\* (*ecdsa.PublicKey).Equal: same type, same curve, same point.
EcdsaEqual(pub, x) == x.type = "ecdsa.pub" /\ x.Curve = pub.Curve /\ x.Q = pub.Q

\* (ed25519.PublicKey).Equal: same type, same bytes.
Ed25519Equal(pub, x) == x.type = "ed25519.pub" /\ x.A = pub.A

Bool(b) == [type |-> "bool", v |-> b]

\* Variant: the type of b is inspected as well.
PublicKeysEqualBothTypes(a, b) ==
    IF b.type \notin {"rsa.pub", "ecdsa.pub", "ed25519.pub"}
    THEN Err("UnrecognisedKeyType", b.type)
    ELSE CASE a.type = "rsa.pub" -> Bool(RsaEqual(a, b))
           [] a.type = "ecdsa.pub" -> Bool(EcdsaEqual(a, b))
           [] a.type = "ed25519.pub" -> Bool(Ed25519Equal(a, b))
           [] OTHER -> Err("UnrecognisedKeyType", a.type)

PublicKeysEqual(a, b) ==
    CASE a.type = "rsa.pub" -> Bool(RsaEqual(a, b))
      [] a.type = "ecdsa.pub" -> Bool(EcdsaEqual(a, b))
      [] a.type = "ed25519.pub" -> Bool(Ed25519Equal(a, b))
      [] OTHER -> Err("UnrecognisedKeyType", a.type)

\* Variant: the arguments are passed on in the order they came.
PublicKeyMatchesCertificateSwapped(check, cert) == PublicKeysEqual(check, cert.PublicKey)

PublicKeyMatchesCertificate(check, cert) == PublicKeysEqual(cert.PublicKey, check)

PublicKeyMatchesCSR(check, csr) == PublicKeysEqual(csr.PublicKey, check)

(* ------------------------------ decoding ------------------------------ *)

CurveOfOid(oid) ==
    CASE oid = "secp256r1" -> "P-256"
      [] oid = "secp384r1" -> "P-384"
      [] oid = "secp521r1" -> "P-521"
      [] OTHER -> "none"

IsInt(e) == e.tag = "INTEGER"

\* The inverse of the armour: the block between a matching header and footer.
PemDecode(data) ==
    LET n == Len(data)
    IN  IF /\ n >= 2
           /\ "pem" \in DOMAIN data[1] /\ data[1].pem = "BEGIN"
           /\ "pem" \in DOMAIN data[n] /\ data[n].pem = "END"
           /\ data[1].label = data[n].label
           /\ \A i \in 2..(n - 1) : "b64" \in DOMAIN data[i]
        THEN [type |-> "block", Type |-> data[1].label,
              Bytes |-> [i \in 1..(n - 2) |-> data[i + 1].b64]]
        ELSE Err("NoPemBlock", "")

\* Parser of the RSA-specific structure.
ParsePKCS1PrivateKey(der) ==
    IF /\ Len(der) = 4
       /\ IsInt(der[1]) /\ der[1].int = 0
       /\ der[2].tag = "MODULUS"
       /\ IsInt(der[3]) /\ IsInt(der[4])
    THEN [type |-> "rsa", N |-> der[2].n, E |-> der[3].int, D |-> der[4].int]
    ELSE Err("ParseError", "PKCS1")

\* Parser of the EC-specific structure.
ParseECPrivateKey(der) ==
    IF /\ Len(der) = 4
       /\ IsInt(der[1]) /\ der[1].int = 1
       /\ IsInt(der[2])
       /\ der[3].tag = "OID" /\ CurveOfOid(der[3].oid) # "none"
    THEN [type |-> "ecdsa", Curve |-> CurveOfOid(der[3].oid), D |-> der[2].int]
    ELSE Err("ParseError", "EC")

\* Parser of the algorithm-agnostic structure.
ParsePKCS8PrivateKey(der) ==
    IF /\ Len(der) = 3
       /\ IsInt(der[1]) /\ der[1].int = 0
       /\ der[2].tag = "OCTETS" /\ der[3].tag = "OCTETS"
       /\ Len(der[2].seq) >= 1 /\ der[2].seq[1].tag = "OID"
    THEN LET alg == der[2].seq
             inner == der[3].seq
         IN  CASE alg[1].oid = "rsaEncryption" -> ParsePKCS1PrivateKey(inner)
               [] alg[1].oid = "ecPublicKey" ->
                    IF /\ Len(alg) = 2 /\ alg[2].tag = "OID" /\ CurveOfOid(alg[2].oid) # "none"
                       /\ Len(inner) = 3 /\ IsInt(inner[1]) /\ inner[1].int = 1
                       /\ IsInt(inner[2])
                    THEN [type |-> "ecdsa", Curve |-> CurveOfOid(alg[2].oid), D |-> inner[2].int]
                    ELSE Err("ParseError", "PKCS8")
               [] alg[1].oid = "Ed25519" ->
                    IF Len(inner) = 1 /\ IsInt(inner[1])
                    THEN [type |-> "ed25519", seed |-> inner[1].int,
                          pub |-> Ed25519Public(inner[1].int)]
                    ELSE Err("ParseError", "PKCS8")
               [] OTHER -> Err("ParseError", "PKCS8")
    ELSE Err("ParseError", "PKCS8")

\* The decoder that belongs to the container label of the armour.
DecodePrivateKeyBytes(data) ==
    LET block == PemDecode(data)
    IN  IF IsErr(block) THEN block
        ELSE CASE block.Type = "RSA PRIVATE KEY" -> ParsePKCS1PrivateKey(block.Bytes)
               [] block.Type = "EC PRIVATE KEY" -> ParseECPrivateKey(block.Bytes)
               [] block.Type = "PRIVATE KEY" -> ParsePKCS8PrivateKey(block.Bytes)
               [] OTHER -> Err("UnknownLabel", block.Type)

\* The container label of an armoured output.
LabelOf(data) == data[1].label

(* ------------------------------ actions ------------------------------- *)

\* The random source advances when a key was made from it.
Consume(r) == IF IsKey(r) THEN rand + 1 ELSE rand

\* The caller owns every key it was returned.
Keep(r) == IF IsKey(r) THEN held \cup {r} ELSE held

Init ==
    /\ crt \in Certificates
    /\ rand = 0
    /\ held = {}
    /\ ret = [op |-> "none"]
    /\ prev = [op |-> "none"]

GenForCertificate ==
    /\ rand < MaxRand
    /\ \E rnd \in Draws :
         LET out == GeneratePrivateKeyForCertificate([a \in {CallerPtr} |-> crt], CallerPtr, rnd)
         IN  /\ ret' = [op |-> "generate_for_certificate", spec |-> crt, rnd |-> rnd,
                        val |-> out.result]
             /\ crt' = out.heap[CallerPtr]
             /\ rand' = Consume(out.result)
             /\ held' = Keep(out.result)
    /\ UNCHANGED prev

GenRSA ==
    /\ rand < MaxRand
    /\ \E s \in Sizes, rnd \in Draws :
         LET r == GenerateRSAPrivateKey(s, rnd)
         IN  /\ ret' = [op |-> "generate_rsa", size |-> s, rnd |-> rnd, val |-> r]
             /\ rand' = Consume(r)
             /\ held' = Keep(r)
    /\ UNCHANGED <<crt, prev>>

GenEC ==
    /\ rand < MaxRand
    /\ \E s \in Sizes, rnd \in Draws :
         LET r == GenerateECPrivateKey(s, rnd)
         IN  /\ ret' = [op |-> "generate_ecdsa", size |-> s, rnd |-> rnd, val |-> r]
             /\ rand' = Consume(r)
             /\ held' = Keep(r)
    /\ UNCHANGED <<crt, prev>>

GenEd25519 ==
    /\ rand < MaxRand
    /\ \E rnd \in Draws :
         LET r == GenerateEd25519PrivateKey(rnd)
         IN  /\ ret' = [op |-> "generate_ed25519", rnd |-> rnd, val |-> r]
             /\ rand' = Consume(r)
             /\ held' = Keep(r)
    /\ UNCHANGED <<crt, prev>>

\* Keys and public keys of types this package does not know.
ForeignPrivateKey == [type |-> "dsa", X |-> 7]
ForeignPublicKey == [type |-> "dsa.pub", Y |-> 7]

PrivateKeys == held \cup {ForeignPrivateKey}

PublicKeys == {PublicKeyForPrivateKey(k) : k \in held} \cup {ForeignPublicKey}

\* An encoding call; the caller may remember its outcome to compare later.
Encode ==
    /\ \E k \in PrivateKeys, f \in Encodings :
         LET r == [op |-> "encode", key |-> k, enc |-> f, at |-> rand,
                   val |-> EncodePrivateKey(k, f)]
         IN  /\ ret' = r
             /\ prev' \in {prev, r}
    /\ UNCHANGED <<crt, rand, held>>

DerivePublic ==
    /\ \E k \in PrivateKeys :
         ret' = [op |-> "derive_public_key", key |-> k, val |-> PublicKeyForPrivateKey(k)]
    /\ UNCHANGED <<crt, rand, held, prev>>

Equal ==
    /\ \E a \in PublicKeys, b \in PublicKeys :
         ret' = [op |-> "public_keys_equal", a |-> a, b |-> b, val |-> PublicKeysEqual(a, b)]
    /\ UNCHANGED <<crt, rand, held, prev>>

MatchesCertificate ==
    /\ \E check \in PublicKeys, emb \in PublicKeys :
         ret' = [op |-> "matches_certificate", check |-> check, emb |-> emb,
                 val |-> PublicKeyMatchesCertificate(check, [PublicKey |-> emb])]
    /\ UNCHANGED <<crt, rand, held, prev>>

MatchesCSR ==
    /\ \E check \in PublicKeys, emb \in PublicKeys :
         ret' = [op |-> "matches_request", check |-> check, emb |-> emb,
                 val |-> PublicKeyMatchesCSR(check, [PublicKey |-> emb])]
    /\ UNCHANGED <<crt, rand, held, prev>>

NextGen == GenForCertificate \/ GenRSA \/ GenEC \/ GenEd25519

SpecGen == Init /\ [][NextGen]_vars

InitKeys == Init /\ crt = [PrivateKey |-> Nil]

\* Generation, encoding and derivation of public keys.
NextEnc ==
    \/ GenForCertificate \/ GenRSA \/ GenEC \/ GenEd25519
    \/ Encode \/ DerivePublic

SpecEnc == InitKeys /\ [][NextEnc]_vars

\* Generation and comparison of public keys.
NextMatch ==
    \/ GenForCertificate \/ GenRSA \/ GenEC \/ GenEd25519
    \/ Equal \/ MatchesCertificate \/ MatchesCSR

SpecMatch == InitKeys /\ [][NextMatch]_vars

(* ------------------------------ properties ---------------------------- *)

IsErrOf(r, kind) == IsErr(r) /\ r.kind = kind

\* The selector and the size a certificate specification carries.
SelectorOf(c) == IF c.PrivateKey.type = "nil" THEN "" ELSE c.PrivateKey.Algorithm
SizeOf(c) == IF c.PrivateKey.type = "nil" THEN 0 ELSE c.PrivateKey.Size

ApprovedCurves == {"P-256", "P-384", "P-521"}

\* C1: generate_rsa(s) fails with WeakKey when s < 2048, with
\* ExcessiveKeySize when s > 8192, and otherwise (the random source
\* working) returns a key whose modulus has s bits; no RSA key with a
\* modulus outside [2048, 8192] is ever returned.
C1_RsaOutcome ==
    /\ ret.op = "generate_rsa" =>
         /\ ret.size < 2048 => IsErrOf(ret.val, "WeakKey")
         /\ ret.size > 8192 => IsErrOf(ret.val, "ExcessiveKeySize")
         /\ (ret.size >= 2048 /\ ret.size <= 8192) =>
              IF ret.rnd = RandFail
              THEN IsErrOf(ret.val, "RandomSourceFailure")
              ELSE ret.val.type = "rsa" /\ ret.val.N.bits = ret.size
    /\ \A k \in held : k.type = "rsa" => (k.N.bits >= 2048 /\ k.N.bits <= 8192)

C1_Witness ==
    /\ ret.op = "generate_rsa" /\ ret.size = 2048
    /\ ret.val.type = "rsa" /\ ret.val.N.bits = 2048
    /\ ret.val \in held

\* C2: generate_ecdsa(s) returns a key on P-256, P-384, P-521 for s = 256,
\* 384, 521 (the random source working) and fails with
\* UnsupportedCurveSize for every other s; no key on another curve is
\* produced, directly or through generate_for_certificate.
C2_EcdsaOutcome ==
    /\ ret.op = "generate_ecdsa" =>
         IF ret.size \in {256, 384, 521}
         THEN IF ret.rnd = RandFail
              THEN IsErrOf(ret.val, "RandomSourceFailure")
              ELSE /\ ret.val.type = "ecdsa"
                   /\ ret.size = 256 => ret.val.Curve = "P-256"
                   /\ ret.size = 384 => ret.val.Curve = "P-384"
                   /\ ret.size = 521 => ret.val.Curve = "P-521"
         ELSE IsErrOf(ret.val, "UnsupportedCurveSize")
    /\ (ret.op = "generate_for_certificate" /\ ret.val.type = "ecdsa") =>
         /\ ret.val.Curve \in ApprovedCurves
         /\ SizeOf(ret.spec) = 384 => ret.val.Curve = "P-384"
         /\ SizeOf(ret.spec) = 521 => ret.val.Curve = "P-521"
    /\ \A k \in held : k.type = "ecdsa" => k.Curve \in ApprovedCurves

C2_Witness ==
    /\ ret.op = "generate_ecdsa" /\ ret.size = 384
    /\ ret.val.type = "ecdsa" /\ ret.val.Curve = "P-384"

\* The dispatch as the specification words it: the size replaces the
\* default whenever it is not zero.
C3_Stated(c, rnd) ==
    CASE SelectorOf(c) \in {"", "RSA"} ->
           GenerateRSAPrivateKey(IF SizeOf(c) = 0 THEN 2048 ELSE SizeOf(c), rnd)
      [] SelectorOf(c) = "ECDSA" ->
           GenerateECPrivateKey(IF SizeOf(c) = 0 THEN 256 ELSE SizeOf(c), rnd)
      [] SelectorOf(c) = "Ed25519" -> GenerateEd25519PrivateKey(rnd)
      [] OTHER -> Err("UnsupportedAlgorithm", SelectorOf(c))

\* The dispatch with the size replacing the default only when positive.
C3_Positive(c, rnd) ==
    CASE SelectorOf(c) \in {"", "RSA"} ->
           GenerateRSAPrivateKey(IF SizeOf(c) >= 1 THEN SizeOf(c) ELSE 2048, rnd)
      [] SelectorOf(c) = "ECDSA" ->
           GenerateECPrivateKey(IF SizeOf(c) >= 1 THEN SizeOf(c) ELSE 256, rnd)
      [] SelectorOf(c) = "Ed25519" -> GenerateEd25519PrivateKey(rnd)
      [] OTHER -> Err("UnsupportedAlgorithm", SelectorOf(c))

C4_Label(enc, variant) ==
    IF enc = "PKCS8" THEN "PRIVATE KEY"
    ELSE CASE variant = "rsa" -> "RSA PRIVATE KEY"
           [] variant = "ecdsa" -> "EC PRIVATE KEY"
           [] variant = "ed25519" -> "PRIVATE KEY"

ValidEncodings == {"", "PKCS1", "PKCS8"}

RecognisedPublic == {"rsa.pub", "ecdsa.pub", "ed25519.pub"}

\* C5: public_keys_equal(a, b) returns a boolean for every b when a is
\* RSA, ECDSA or Ed25519, false when b is of another variant, and fails
\* with UnrecognisedKeyType for every b when a is of an unrecognised type.
C5_ErrorFromFirstArgument ==
    ret.op = "public_keys_equal" =>
      IF ret.a.type \in RecognisedPublic
      THEN /\ ret.val.type = "bool"
           /\ ret.b.type # ret.a.type => ret.val.v = FALSE
      ELSE IsErrOf(ret.val, "UnrecognisedKeyType") /\ ret.val.name = ret.a.type

C5_Witness ==
    /\ ret.op = "public_keys_equal"
    /\ ret.a.type = "rsa.pub" /\ ret.b.type = "ecdsa.pub"
    /\ ret.val.type = "bool" /\ ret.val.v = FALSE

KeySize(k) ==
    CASE k.type = "rsa" -> [bits |-> k.N.bits]
      [] k.type = "ecdsa" -> [curve |-> k.Curve]
      [] OTHER -> [fixed |-> k.type]

C9_SpecificationUnchanged ==
    ret.op = "generate_for_certificate" => crt = ret.spec

C9_Witness ==
    /\ ret.op = "generate_for_certificate"
    /\ ret.spec.PrivateKey.type = "nil" /\ crt.PrivateKey.type = "nil"
    /\ ret.val.type = "rsa"

\* C10: through generate_for_certificate a size <= 0 gives the default:
\* a 2048-bit key for selector RSA or unspecified, never WeakKey, which
\* arises exactly for sizes 1..2047; a P-256 key for selector ECDSA, never
\* UnsupportedCurveSize.  generate_rsa and generate_ecdsa called with a
\* size <= 0 fail.
C10_NonPositiveSizeIsDefault ==
    /\ ret.op = "generate_for_certificate" =>
         /\ SelectorOf(ret.spec) \in {"", "RSA"} =>
              /\ IsErrOf(ret.val, "WeakKey") <=>
                   (SizeOf(ret.spec) >= 1 /\ SizeOf(ret.spec) <= 2047)
              /\ (SizeOf(ret.spec) <= 0 /\ ret.rnd # RandFail) =>
                   ret.val.type = "rsa" /\ ret.val.N.bits = 2048
         /\ (SelectorOf(ret.spec) = "ECDSA" /\ SizeOf(ret.spec) <= 0) =>
              /\ ~IsErrOf(ret.val, "UnsupportedCurveSize")
              /\ ret.rnd # RandFail => ret.val.type = "ecdsa" /\ ret.val.Curve = "P-256"
    /\ (ret.op = "generate_rsa" /\ ret.size <= 0) => IsErrOf(ret.val, "WeakKey")
    /\ (ret.op = "generate_ecdsa" /\ ret.size <= 0) =>
         IsErrOf(ret.val, "UnsupportedCurveSize")

C10_Witness ==
    /\ ret.op = "generate_for_certificate"
    /\ SelectorOf(ret.spec) = "RSA" /\ SizeOf(ret.spec) = -1
    /\ ret.val.type = "rsa" /\ ret.val.N.bits = 2048

====
